---- MODULE Spec2Model ----
(***************************************************************************)
(* Binary search over an int array (algo/c/src/example.c) and the          *)
(* demonstration main that calls it twice.                                 *)
(*                                                                         *)
(* Every invocation of binary_search is a small process with its own       *)
(* program counter and its own locals left, right, mid; the array is the   *)
(* memory all invocations share.  C index i is position i + 1 of the TLA+  *)
(* sequence arr.  Index arithmetic is done in a scaled-down signed int     *)
(* whose largest value INT_MAX is the largest array length explored, so    *)
(* that lengths up to INT_MAX are covered.  Element values are only        *)
(* compared, never computed with, and stay plain integers.                 *)
(***************************************************************************)
EXTENDS Integers, Sequences, FiniteSets, TLC

\* ------------------------------------------------------------------ bounds

\* Longest array explored by the general specification.
MaxLen == 7
\* Elements and targets of the general specification are drawn from 0..MaxVal.
MaxVal == 2
\* Sorted-input specification: lengths 0..SortedMaxLen, values 0..SortedMaxVal.
SortedMaxLen == 6
SortedMaxVal == 6
\* Repeated-call and fair specifications: lengths 0..SmallLen, values 0..SmallVal.
SmallLen == 5
SmallVal == 2
\* Concurrent specification: lengths 0..ConcLen, values 0..ConcVal.
ConcLen == 3
ConcVal == 1
\* Number of invocations that can be live at once.
NumProcs == 2
\* Number of times the repeated-call harness calls with the same arguments.
MaxCalls == 3

Procs == 1..NumProcs

\* --------------------------------------------------------------- int type

INT_MAX == MaxLen
INT_MIN == -INT_MAX - 1
IntRange == INT_MIN..INT_MAX

\* The outcomes of an int computation whose mathematical value is x, each
\* with the flag "it overflowed": x itself when representable, and any int
\* at all otherwise (signed overflow is undefined behaviour).
Checked(x) ==
    IF x \in IntRange THEN {<<x, FALSE>>} ELSE {<<r, TRUE>> : r \in IntRange}

\* C's integer division, truncating toward zero.
TruncDiv(a, b) ==
    IF a >= 0 THEN a \div b ELSE -((-a) \div b)

\* The midpoint a naive implementation would compute: (left + right) / 2.
NaiveMidpoint(l, r) ==
    {<<TruncDiv(s[1], 2), s[2]>> : s \in Checked(l + r)}

\* Line 11: left + (right - left) / 2, the subtraction first, then the sum.
Midpoint(l, r) ==
    UNION { {<<s[1], d[2] \/ s[2]>> : s \in Checked(l + TruncDiv(d[1], 2))}
            : d \in Checked(r - l) }

\* ------------------------------------------------------------------ state

VARIABLES
    arr,      \* the array in memory, shared by every invocation
    n,        \* the length passed to binary_search
    target,   \* target[t]: the target argument of invocation t
    left,     \* left[t], right[t], mid[t]: the locals of invocation t
    right,
    mid,
    pc,       \* pc[t]: "idle", a line of binary_search ("L7".."L17"), "done"
    ret,      \* ret[t]: the value invocation t returned
    iters,    \* iters[t]: loop bodies entered by the current call of t
    reads,    \* reads[t]: C indices the current call of t has read
    ovf,      \* some int computation so far has overflowed
    hist,     \* hist[t]: results of the earlier calls of the same arguments
    mpc,      \* main's position: "none" (no main), "m24", "m24p", "m25", "m25p", "m27", "exit"
    out,      \* the numbers main has printed, one per line
    status    \* main's exit status, -1 while main has not returned

vars == <<arr, n, target, left, right, mid, pc, ret, iters, reads, ovf,
          hist, mpc, out, status>>

\* The frame of binary_search: everything one of its steps may not touch.
callerVars == <<arr, n, target, hist, mpc, out, status>>

\* --------------------------------------------------------------- helpers

IsSorted(a) == \A i \in 1..(Len(a) - 1) : a[i] <= a[i + 1]

IsStrict(a) == \A i \in 1..(Len(a) - 1) : a[i] < a[i + 1]

Occurs(a, v) == \E i \in 1..Len(a) : a[i] = v

\* The values a read of arr[i] can yield: the element when 0 <= i < length,
\* anything otherwise (an out-of-bounds read is undefined behaviour).
ReadArr(i) ==
    IF i \in 0..(Len(arr) - 1) THEN {arr[i + 1]} ELSE IntRange

\* Lines 6-18 as a function: the result of one call run alone on array a of
\* length m for target v, starting from the interval [l, r].
RECURSIVE SearchFrom(_, _, _, _)
SearchFrom(a, v, l, r) ==
    IF l > r THEN -1
    ELSE LET m == l + TruncDiv(r - l, 2) IN
         IF a[m + 1] = v THEN m
         ELSE IF a[m + 1] < v THEN SearchFrom(a, v, m + 1, r)
         ELSE SearchFrom(a, v, l, m - 1)

SearchAlone(a, m, v) == SearchFrom(a, v, 0, m - 1)

\* ------------------------------------------------- binary_search, by line

\* Off by one: right = n instead of n - 1.
EnterRightN(t) ==
    /\ pc[t] = "L7"
    /\ \E r \in Checked(n) :
          /\ right' = [right EXCEPT ![t] = r[1]]
          /\ ovf' = (ovf \/ r[2])
    /\ left' = [left EXCEPT ![t] = 0]
    /\ iters' = [iters EXCEPT ![t] = 0]
    /\ reads' = [reads EXCEPT ![t] = {}]
    /\ pc' = [pc EXCEPT ![t] = "L10"]
    /\ UNCHANGED <<mid, ret>>
    /\ UNCHANGED callerVars

\* left declared static: a call starts from the left its predecessor ended with.
EnterKeepLeft(t) ==
    /\ pc[t] = "L7"
    /\ \E r \in Checked(n - 1) :
          /\ right' = [right EXCEPT ![t] = r[1]]
          /\ ovf' = (ovf \/ r[2])
    /\ iters' = [iters EXCEPT ![t] = 0]
    /\ reads' = [reads EXCEPT ![t] = {}]
    /\ pc' = [pc EXCEPT ![t] = "L10"]
    /\ UNCHANGED <<left, mid, ret>>
    /\ UNCHANGED callerVars

\* Lines 6-8: the call is entered, left = 0 and right = n - 1.
Enter(t) ==
    /\ pc[t] = "L7"
    /\ \E r \in Checked(n - 1) :
          /\ right' = [right EXCEPT ![t] = r[1]]
          /\ ovf' = (ovf \/ r[2])
    /\ left' = [left EXCEPT ![t] = 0]
    /\ iters' = [iters EXCEPT ![t] = 0]
    /\ reads' = [reads EXCEPT ![t] = {}]
    /\ pc' = [pc EXCEPT ![t] = "L10"]
    /\ UNCHANGED <<mid, ret>>
    /\ UNCHANGED callerVars

\* A do-while loop: the first pass enters the body without testing.
LoopTestDoWhile(t) ==
    /\ pc[t] = "L10"
    /\ IF left[t] <= right[t] \/ iters[t] = 0
       THEN /\ pc' = [pc EXCEPT ![t] = "L11"]
            /\ iters' = [iters EXCEPT ![t] = @ + 1]
       ELSE /\ pc' = [pc EXCEPT ![t] = "L17"]
            /\ UNCHANGED iters
    /\ UNCHANGED <<left, right, mid, ret, reads, ovf>>
    /\ UNCHANGED callerVars

\* Line 10: while (left <= right).
LoopTest(t) ==
    /\ pc[t] = "L10"
    /\ IF left[t] <= right[t]
       THEN /\ pc' = [pc EXCEPT ![t] = "L11"]
            /\ iters' = [iters EXCEPT ![t] = @ + 1]
       ELSE /\ pc' = [pc EXCEPT ![t] = "L17"]
            /\ UNCHANGED iters
    /\ UNCHANGED <<left, right, mid, ret, reads, ovf>>
    /\ UNCHANGED callerVars

\* mid declared static: one mid shared by every invocation.
ComputeMidShared(t) ==
    /\ pc[t] = "L11"
    /\ \E m \in Midpoint(left[t], right[t]) :
          /\ mid' = [u \in Procs |-> m[1]]
          /\ ovf' = (ovf \/ m[2])
    /\ pc' = [pc EXCEPT ![t] = "L12"]
    /\ UNCHANGED <<left, right, ret, iters, reads>>
    /\ UNCHANGED callerVars

\* Line 11: int mid = left + (right - left) / 2.
ComputeMid(t) ==
    /\ pc[t] = "L11"
    /\ \E m \in Midpoint(left[t], right[t]) :
          /\ mid' = [mid EXCEPT ![t] = m[1]]
          /\ ovf' = (ovf \/ m[2])
    /\ pc' = [pc EXCEPT ![t] = "L12"]
    /\ UNCHANGED <<left, right, ret, iters, reads>>
    /\ UNCHANGED callerVars

\* A one-based result: return mid + 1.
TestEqualOneBased(t) ==
    /\ pc[t] = "L12"
    /\ reads' = [reads EXCEPT ![t] = @ \cup {mid[t]}]
    /\ \E v \in ReadArr(mid[t]) :
          IF v = target[t]
          THEN /\ ret' = [ret EXCEPT ![t] = mid[t] + 1]
               /\ pc' = [pc EXCEPT ![t] = "done"]
          ELSE /\ pc' = [pc EXCEPT ![t] = "L13"]
               /\ UNCHANGED ret
    /\ UNCHANGED <<left, right, mid, iters, ovf>>
    /\ UNCHANGED callerVars

\* Line 12: if (arr[mid] == target) return mid.
TestEqual(t) ==
    /\ pc[t] = "L12"
    /\ reads' = [reads EXCEPT ![t] = @ \cup {mid[t]}]
    /\ \E v \in ReadArr(mid[t]) :
          IF v = target[t]
          THEN /\ ret' = [ret EXCEPT ![t] = mid[t]]
               /\ pc' = [pc EXCEPT ![t] = "done"]
          ELSE /\ pc' = [pc EXCEPT ![t] = "L13"]
               /\ UNCHANGED ret
    /\ UNCHANGED <<left, right, mid, iters, ovf>>
    /\ UNCHANGED callerVars

\* The comparison reversed: arr[mid] > target moves left.
NarrowFlipped(t) ==
    /\ pc[t] = "L13"
    /\ reads' = [reads EXCEPT ![t] = @ \cup {mid[t]}]
    /\ \E v \in ReadArr(mid[t]) :
          IF v > target[t]
          THEN /\ \E x \in Checked(mid[t] + 1) :
                     /\ left' = [left EXCEPT ![t] = x[1]]
                     /\ ovf' = (ovf \/ x[2])
               /\ UNCHANGED right
          ELSE /\ \E x \in Checked(mid[t] - 1) :
                     /\ right' = [right EXCEPT ![t] = x[1]]
                     /\ ovf' = (ovf \/ x[2])
               /\ UNCHANGED left
    /\ pc' = [pc EXCEPT ![t] = "L10"]
    /\ UNCHANGED <<mid, ret, iters>>
    /\ UNCHANGED callerVars

\* The probed position kept in the interval: left = mid, right = mid.
NarrowNoProgress(t) ==
    /\ pc[t] = "L13"
    /\ reads' = [reads EXCEPT ![t] = @ \cup {mid[t]}]
    /\ \E v \in ReadArr(mid[t]) :
          IF v < target[t]
          THEN /\ left' = [left EXCEPT ![t] = mid[t]]
               /\ UNCHANGED right
          ELSE /\ right' = [right EXCEPT ![t] = mid[t]]
               /\ UNCHANGED left
    /\ pc' = [pc EXCEPT ![t] = "L10"]
    /\ UNCHANGED <<mid, ret, iters, ovf>>
    /\ UNCHANGED callerVars

\* Lines 13-14: if (arr[mid] < target) left = mid + 1; else right = mid - 1.
Narrow(t) ==
    /\ pc[t] = "L13"
    /\ reads' = [reads EXCEPT ![t] = @ \cup {mid[t]}]
    /\ \E v \in ReadArr(mid[t]) :
          IF v < target[t]
          THEN /\ \E x \in Checked(mid[t] + 1) :
                     /\ left' = [left EXCEPT ![t] = x[1]]
                     /\ ovf' = (ovf \/ x[2])
               /\ UNCHANGED right
          ELSE /\ \E x \in Checked(mid[t] - 1) :
                     /\ right' = [right EXCEPT ![t] = x[1]]
                     /\ ovf' = (ovf \/ x[2])
               /\ UNCHANGED left
    /\ pc' = [pc EXCEPT ![t] = "L10"]
    /\ UNCHANGED <<mid, ret, iters>>
    /\ UNCHANGED callerVars

\* The insertion point returned in place of -1: return left.
ReturnInsertionPoint(t) ==
    /\ pc[t] = "L17"
    /\ ret' = [ret EXCEPT ![t] = left[t]]
    /\ pc' = [pc EXCEPT ![t] = "done"]
    /\ UNCHANGED <<left, right, mid, iters, reads, ovf>>
    /\ UNCHANGED callerVars

\* Line 17: return -1.
ReturnAbsent(t) ==
    /\ pc[t] = "L17"
    /\ ret' = [ret EXCEPT ![t] = -1]
    /\ pc' = [pc EXCEPT ![t] = "done"]
    /\ UNCHANGED <<left, right, mid, iters, reads, ovf>>
    /\ UNCHANGED callerVars

\* One step of some invocation of binary_search.
SearchStep ==
    \E t \in Procs :
        \/ Enter(t)
        \/ LoopTest(t)
        \/ ComputeMid(t)
        \/ TestEqual(t)
        \/ Narrow(t)
        \/ ReturnAbsent(t)

\* ------------------------------------------------------------------- main

\* Line 21: int arr[] = {1, 3, 5, 7, 9, 11, 13}.
MainArr == <<1, 3, 5, 7, 9, 11, 13>>

\* Lines 24 and 25, the call: binary_search(arr, n, v) is entered.
MainCall(at, v) ==
    /\ mpc = at
    /\ pc[1] \in {"idle", "done"}
    /\ target' = [target EXCEPT ![1] = v]
    /\ pc' = [pc EXCEPT ![1] = "L7"]
    /\ mpc' = (IF at = "m24" THEN "m24p" ELSE "m25p")
    /\ UNCHANGED <<arr, n, left, right, mid, ret, iters, reads, ovf, hist,
                   out, status>>

\* Lines 24 and 25, the printf: the returned value is printed on a line.
MainPrint(at) ==
    /\ mpc = at
    /\ pc[1] = "done"
    /\ out' = Append(out, ret[1])
    /\ mpc' = (IF at = "m24p" THEN "m25" ELSE "m27")
    /\ UNCHANGED <<arr, n, target, left, right, mid, pc, ret, iters, reads,
                   ovf, hist, status>>

\* Line 27: return 0.
MainReturn ==
    /\ mpc = "m27"
    /\ status' = 0
    /\ mpc' = "exit"
    /\ UNCHANGED <<arr, n, target, left, right, mid, pc, ret, iters, reads,
                   ovf, hist, out>>

MainStep ==
    \/ MainCall("m24", 7)
    \/ MainPrint("m24p")
    \/ MainCall("m25", 4)
    \/ MainPrint("m25p")
    \/ MainReturn

\* -------------------------------------------------------- repeated calls

\* A caller calls again with the same array, length and target.  The new
\* call finds whatever the previous one left in the locals.
Recall(t) ==
    /\ mpc = "none"
    /\ pc[t] = "done"
    /\ Len(hist[t]) + 1 < MaxCalls
    /\ hist' = [hist EXCEPT ![t] = Append(@, ret[t])]
    /\ pc' = [pc EXCEPT ![t] = "L7"]
    /\ UNCHANGED <<arr, n, target, left, right, mid, ret, iters, reads, ovf,
                   mpc, out, status>>

RecallStep == \E t \in Procs : Recall(t)

\* ---------------------------------------------------------- initial states

\* Locals before their first assignment, and the bookkeeping, at a fixed
\* start: no step reads a local before assigning it.
InitFrame ==
    /\ left = [t \in Procs |-> 0]
    /\ right = [t \in Procs |-> 0]
    /\ mid = [t \in Procs |-> 0]
    /\ ret = [t \in Procs |-> 0]
    /\ iters = [t \in Procs |-> 0]
    /\ reads = [t \in Procs |-> {}]
    /\ hist = [t \in Procs |-> <<>>]
    /\ ovf = FALSE
    /\ out = <<>>
    /\ status = -1

\* One call binary_search(a, Len(a), v), a over 0..k of length 0..len, sorted
\* or not as asked.
InitCall(len, k, sortedOnly) ==
    /\ \E m \in 0..len :
          arr \in {a \in [1..m -> 0..k] : sortedOnly => IsSorted(a)}
    /\ n = Len(arr)
    /\ \E v \in 0..k : target = [t \in Procs |-> v]
    /\ pc = [t \in Procs |-> IF t = 1 THEN "L7" ELSE "idle"]
    /\ mpc = "none"
    /\ InitFrame

\* main after lines 21-22, about to make the first call.
InitMain ==
    /\ arr = MainArr
    /\ n = Len(MainArr)
    /\ target = [t \in Procs |-> 0]
    /\ pc = [t \in Procs |-> "idle"]
    /\ mpc = "m24"
    /\ InitFrame

\* Every invocation called at once on the same array, each with its target.
InitConc ==
    /\ \E m \in 0..ConcLen : arr \in [1..m -> 0..ConcVal]
    /\ n = Len(arr)
    /\ target \in [Procs -> 0..ConcVal]
    /\ pc = [t \in Procs |-> "L7"]
    /\ mpc = "none"
    /\ InitFrame

\* ---------------------------------------------------------- specifications

\* One call on any array, sorted or not.
Init == InitCall(MaxLen, MaxVal, FALSE)
Next == SearchStep
Spec == Init /\ [][Next]_vars

\* One call on a sorted array: the inputs the contract is about.
SortedInit == InitCall(SortedMaxLen, SortedMaxVal, TRUE)
SortedSpec == SortedInit /\ [][Next]_vars

\* The same call repeated by its caller.
RepeatInit == InitCall(SmallLen, SmallVal, FALSE)
RepeatNext == SearchStep \/ RecallStep
RepeatSpec == RepeatInit /\ [][RepeatNext]_vars

\* main, and single calls on any array, every enabled step eventually taken:
\* the program is one thread that runs until it returns.
FairInit == InitCall(SmallLen, SmallVal, FALSE) \/ InitMain
FairNext == SearchStep \/ MainStep
FairSpec == FairInit /\ [][FairNext]_vars /\ WF_vars(FairNext)

\* Concurrent invocations on one shared array, interleaved step by step.
ConcSpec == InitConc /\ [][Next]_vars

\* ------------------------------------------------------------------ claims

InLoop(t) == pc[t] \in {"L10", "L11", "L12", "L13"}

\* The interval width right - left + 1 of invocation t.
Width(t) == right[t] - left[t] + 1

\* ret[t] is a position of the array that holds the target of t.
HitsTarget(t) ==
    /\ ret[t] \in 0..(n - 1)
    /\ arr[ret[t] + 1] = target[t]

\* C1: on a sorted array of length n >= 1, a call whose target is one of the
\* elements returns a position 0 <= j < n holding the target; when the
\* elements are strictly ascending that position is the one of the element
\* searched for (0 for the first, n - 1 for the last, 0 for [x] and x).
C1_FindsPresent ==
    \A t \in Procs :
        (pc[t] = "done" /\ n >= 1 /\ IsSorted(arr) /\ Occurs(arr, target[t]))
            => /\ HitsTarget(t)
               /\ IsStrict(arr) =>
                     \A i \in 0..(n - 1) :
                         arr[i + 1] = target[t] => ret[t] = i

\* A strictly ascending array of at least four elements searched for its
\* last element, found at n - 1 after several probes.
C1_Witness ==
    /\ pc[1] = "done"
    /\ n >= 4
    /\ IsStrict(arr)
    /\ target[1] = arr[n]
    /\ ret[1] = n - 1
    /\ iters[1] >= 2

\* C2: on a sorted array (duplicates allowed) a call whose target occurs at
\* no position returns -1.
C2_AbsentGivesMinusOne ==
    \A t \in Procs :
        (pc[t] = "done" /\ IsSorted(arr) /\ ~Occurs(arr, target[t]))
            => ret[t] = -1

\* -1 returned for a target strictly between two adjacent elements of an
\* array with a duplicate.
C2_Witness ==
    /\ pc[1] = "done"
    /\ ret[1] = -1
    /\ ~IsStrict(arr)
    /\ \E i \in 1..(n - 1) : arr[i] < target[1] /\ target[1] < arr[i + 1]

\* C3: with n = 0 the loop body is never entered, no element is read, and
\* the call returns -1.
C3_EmptyReturnsAtOnce ==
    \A t \in Procs :
        n = 0 =>
            /\ iters[t] = 0
            /\ reads[t] = {}
            /\ pc[t] \notin {"L11", "L12", "L13"}
            /\ pc[t] = "L10" => (left[t] = 0 /\ right[t] = -1)
            /\ pc[t] = "done" => ret[t] = -1

\* A call with n = 0 that has returned.
C3_Witness ==
    /\ n = 0
    /\ pc[1] = "done"
    /\ ret[1] = -1
    /\ iters[1] = 0

\* What main has printed is a prefix of the two lines 3, -1.
MainOutputSoFar ==
    \/ out = <<>>
    \/ out = <<3>>
    \/ out = <<3, -1>>

\* C4: main prints 3, then -1, nothing else, and then returns 0, on every
\* execution.
C4_MainOutput ==
    /\ [](mpc # "none" =>
            /\ MainOutputSoFar
            /\ mpc \in {"m24", "m24p"} => out = <<>>
            /\ mpc \in {"m25", "m25p"} => out = <<3>>
            /\ mpc \in {"m27", "exit"} => out = <<3, -1>>
            /\ mpc = "exit" <=> status = 0)
    /\ (mpc = "m24") ~> (mpc = "exit" /\ out = <<3, -1>> /\ status = 0)

\* main has exited with status 0 after printing both lines.
C4_Witness ==
    /\ mpc = "exit"
    /\ out = <<3, -1>>
    /\ status = 0
    /\ arr = MainArr

\* C5: no step changes the array, n or the target, and a call repeated with
\* the same arguments returns what the earlier calls returned.
C5_Pure ==
    /\ [][arr' = arr /\ n' = n /\ target' = target]_vars
    /\ [][(\E t \in Procs : pc[t] \notin {"idle", "done"})
             => UNCHANGED callerVars]_vars
    /\ [](\A t \in Procs :
            pc[t] = "done" =>
                \A i \in 1..Len(hist[t]) : hist[t][i] = ret[t])

\* The last of the repeated calls has returned, each call having moved both
\* ends of the interval, on an unsorted array.
C5_Witness ==
    /\ pc[1] = "done"
    /\ Len(hist[1]) = MaxCalls - 1
    /\ iters[1] >= 2
    /\ left[1] > 0
    /\ right[1] < n - 1
    /\ ~IsSorted(arr)

\* C6: every call terminates, sorted array or not: a pass through the loop
\* body returns or strictly decreases the width right - left + 1, which is
\* never negative.
C6_Terminates ==
    /\ [][\A t \in Procs :
            /\ pc[t] = "L12" => pc'[t] \in {"L12", "L13", "done"}
            /\ (pc[t] = "L13" /\ pc'[t] = "L10") => Width(t)' < Width(t)]_vars
    /\ [](\A t \in Procs : InLoop(t) => Width(t) >= 0)
    /\ \A t \in Procs : (pc[t] = "L7") ~> (pc[t] = "done")

\* A call on an unsorted array that returned after three passes.
C6_Witness ==
    /\ mpc = "none"
    /\ pc[1] = "done"
    /\ ~IsSorted(arr)
    /\ iters[1] >= 3

\* C7: concurrent invocations on one shared array never write it, and each
\* returns what it returns when run alone.
C7_ConcurrentAsAlone ==
    /\ [][arr' = arr]_vars
    /\ [](\A t \in Procs :
            pc[t] = "done" => ret[t] = SearchAlone(arr, n, target[t]))

\* Every invocation has returned, two of them with different targets and
\* different results, one after two passes through the loop.
C7_Witness ==
    /\ \A t \in Procs : pc[t] = "done"
    /\ target[1] # target[2]
    /\ ret[1] # ret[2]
    /\ iters[1] >= 2
    /\ iters[2] >= 1

\* C8: for every length 0 <= n <= INT_MAX no computation of binary_search
\* overflows, and left, right, mid stay representable.
C8_NoOverflow ==
    /\ n \in 0..INT_MAX
    /\ ~ovf
    /\ \A t \in Procs :
          /\ left[t] \in IntRange
          /\ right[t] \in IntRange
          /\ mid[t] \in IntRange
          /\ pc[t] = "L11" => (right[t] - left[t]) \in 0..INT_MAX
          /\ pc[t] = "L13" => (mid[t] + 1 \in IntRange /\ mid[t] - 1 \in IntRange)

\* n = INT_MAX, about to compute the midpoint of an interval for which the
\* naive left + right is not representable.
C8_Witness ==
    /\ n = INT_MAX
    /\ pc[1] = "L11"
    /\ left[1] + right[1] > INT_MAX
    /\ ~ovf

\* C9: sorted array or not, only positions 0..n-1 are read, and the result
\* is -1 or a position 0 <= j < n with arr[j] = target.
C9_SafeOnAnyArray ==
    \A t \in Procs :
        /\ reads[t] \subseteq 0..(n - 1)
        /\ pc[t] \in {"L12", "L13"} => mid[t] \in 0..(n - 1)
        /\ pc[t] = "done" => (ret[t] = -1 \/ HitsTarget(t))

\* An unsorted array on which a present target is reported absent.
C9_Witness ==
    /\ pc[1] = "done"
    /\ ret[1] = -1
    /\ ~IsSorted(arr)
    /\ Occurs(arr, target[1])

\* C10: in the loop, on a sorted array, 0 <= left <= right + 1 <= n, every
\* element below left is less than the target and every element above right
\* is greater, so every occurrence of the target lies in [left, right].
C10_LoopInvariant ==
    \A t \in Procs :
        (InLoop(t) /\ IsSorted(arr)) =>
            /\ 0 <= left[t]
            /\ left[t] <= right[t] + 1
            /\ right[t] + 1 <= n
            /\ \A i \in 0..(n - 1) :
                  /\ i < left[t] => arr[i + 1] < target[t]
                  /\ i > right[t] => arr[i + 1] > target[t]
                  /\ arr[i + 1] = target[t] => (left[t] <= i /\ i <= right[t])

\* At the loop test with both ends moved inwards and a target still inside.
C10_Witness ==
    /\ pc[1] = "L10"
    /\ left[1] > 0
    /\ right[1] < n - 1
    /\ left[1] <= right[1]
    /\ \E i \in left[1]..right[1] : arr[i + 1] = target[1]

====
